---- MODULE Spec2Model ----
(***************************************************************************)
(* ResumeMate: the retrieval cache of RAGTools (src/backend/tools/rag.py)  *)
(* and the request orchestrator ResumeMateProcessor                        *)
(* (src/backend/processor.py) with the evaluator's status mapping          *)
(* (src/backend/agents/evaluate.py).                                       *)
(*                                                                         *)
(* Texts are sequences of one-character strings, so that strip(), lower()  *)
(* and the regular-expression substitutions of the code are computed and   *)
(* not assumed.  md5 and hash() are taken to be injective: a cache key is  *)
(* the text that is hashed.  Time is the integer variable clock, read by   *)
(* every time.time() of the code.                                          *)
(***************************************************************************)
EXTENDS Integers, Sequences, FiniteSets, TLC

(***************************************************************************)
(* Bounds of the model (scaled-down configuration values and horizons).    *)
(***************************************************************************)
\* RAGConfig.cache_size (100 in the code), scaled.
cache_size == 1
\* RAGConfig.cache_ttl_seconds (3600 in the code), in clock ticks.
cache_ttl_seconds == 1
\* Horizon of the clock: long enough for an entry to expire and stay expired.
MaxTime == cache_ttl_seconds + 1
\* The sweep period of rag_search (every 50th query in the code), scaled.
cleanup_interval == 2

(***************************************************************************)
(* Program constants.                                                      *)
(***************************************************************************)
\* RAGConfig.max_retries
max_retries == 2
\* RAGConfig.max_top_k
max_top_k == 15
\* RAGConfig.enable_query_cache / enable_embedding_cache
enable_query_cache == TRUE
enable_embedding_cache == TRUE

(***************************************************************************)
(* Texts.                                                                  *)
(***************************************************************************)
\* "?" stands for the full-width punctuation marks that _preprocess_query
\* replaces by a blank.
Whitespace == {" "}
FullWidthPunct == {"?"}

\* The query strings handed to rag_search: two that differ only by case and
\* surrounding blanks, and a blank one.
RawQueries == { <<"A">>, <<" ", "a">>, <<" ">> }
\* The top_k arguments handed to rag_search (0 is not positive).
TopKs == {0, 1, 2}

\* str.lower() on one character
LowerChar(c) == IF c = "A" THEN "a" ELSE IF c = "B" THEN "b" ELSE c

\* str.lower()
Lower(s) == [i \in 1..Len(s) |-> LowerChar(s[i])]

RECURSIVE LStrip(_)
\* str.lstrip()
LStrip(s) == IF s # <<>> /\ Head(s) \in Whitespace THEN LStrip(Tail(s)) ELSE s

RECURSIVE RStrip(_)
\* str.rstrip()
RStrip(s) ==
    IF s # <<>> /\ s[Len(s)] \in Whitespace
    THEN RStrip(SubSeq(s, 1, Len(s) - 1))
    ELSE s

\* str.strip()
Strip(s) == RStrip(LStrip(s))

\* re.sub(r"[？！。，；：]", " ", s)
ReplacePunct(s) == [i \in 1..Len(s) |-> IF s[i] \in FullWidthPunct THEN " " ELSE s[i]]

RECURSIVE CollapseSpaces(_)
\* re.sub(r"\s+", " ", s)
CollapseSpaces(s) ==
    IF Len(s) < 2 THEN s
    ELSE IF s[1] \in Whitespace /\ s[2] \in Whitespace
         THEN CollapseSpaces(Tail(s))
         ELSE <<s[1]>> \o CollapseSpaces(Tail(s))

\* RAGTools._preprocess_query (its memo table _preprocessed_queries only
\* saves recomputing this pure function and is not a state variable here)
_preprocess_query(query) == Strip(CollapseSpaces(ReplacePunct(Strip(query))))

\* RAGTools._validate_input: TRUE iff no ValueError is raised
_validate_input(query, top_k) ==
    /\ Strip(query) # <<>>
    /\ top_k > 0
    /\ top_k <= max_top_k

\* RAGTools._get_cache_key: md5 of "<normalized query>:<top_k>"
_get_cache_key(query, top_k) == [q |-> Lower(Strip(query)), k |-> top_k]

\* The key of the embedding cache: md5 of the text
EmbeddingKey(text) == text

(***************************************************************************)
(* The embedding provider and the vector store (external collaborators).   *)
(***************************************************************************)
\* What one call of provider.embeddings.create may do.
ProviderReplies == {"ok", "rate_limit", "api_error"}
\* The provider's replies to the successive attempts of one batch.
ProviderBehaviours == [1..max_retries -> ProviderReplies]
\* What collection.query may do.
StoreReplies == {"ok", "raise"}

RECURSIVE EmbedAttempt(_, _, _)
\* One iteration of the retry loop of _embed_texts_with_retry, attempt
\* counted from 0; the result tells how the call ends, how many times the
\* provider was called, how many embeddings are returned and how many
\* seconds were slept between the attempts (waited).
EmbedAttempt(replies, attempt, waited) ==
    IF attempt >= max_retries
    THEN [status |-> "empty", calls |-> attempt, embeddings |-> 0,
          waited |-> waited]
    ELSE IF replies[attempt + 1] = "ok"
    THEN [status |-> "ok", calls |-> attempt + 1, embeddings |-> 1,
          waited |-> waited]
    ELSE IF replies[attempt + 1] = "rate_limit"
    THEN IF attempt < max_retries - 1
         THEN EmbedAttempt(replies, attempt + 1, waited + 2 ^ attempt)
         ELSE [status |-> "raised", calls |-> attempt + 1, embeddings |-> 0,
               waited |-> waited]
    ELSE IF replies[attempt + 1] = "api_error"
    THEN IF attempt = max_retries - 1
         THEN [status |-> "raised", calls |-> attempt + 1, embeddings |-> 0,
               waited |-> waited]
         ELSE EmbedAttempt(replies, attempt + 1, waited + 1)
    ELSE [status |-> "raised", calls |-> attempt + 1, embeddings |-> 0,
          waited |-> waited]

\* An _embed_texts_with_retry that goes through its attempts a second time
\* when the first round raised
_embed_texts_with_retry_twice(replies) ==
    LET first == EmbedAttempt(replies, 0, 0)
        second == EmbedAttempt(replies, 0, first.waited)
    IN  IF first.status = "raised"
        THEN [second EXCEPT !.calls = first.calls + second.calls]
        ELSE first

\* RAGTools._embed_texts_with_retry for the one-text batch of a query
_embed_texts_with_retry(replies) == EmbedAttempt(replies, 0, 0)

\* The ranked list a successful search computes for a processed query: it
\* is determined by the text that was embedded and by top_k.
SearchResults(text, top_k) == << [text |-> text, k |-> top_k] >>

(***************************************************************************)
(* State.                                                                  *)
(***************************************************************************)
VARIABLE clock  \* time.time()

VARIABLES
    _query_cache,      \* RAGTools._query_cache: key -> [value, timestamp]
    _embedding_cache,  \* RAGTools._embedding_cache: key -> [timestamp]
    total_queries,     \* _query_stats["total_queries"] modulo cleanup_interval
    lastSearch         \* the arguments and the outcome of the latest rag_search

ragVars == <<_query_cache, _embedding_cache, total_queries, lastSearch>>

VARIABLES
    pc,              \* where each turn is: idle, waiting (for the gate),
                     \* analysis, evaluation (awaiting the agent)
    question,        \* question.text of the turn
    analysis,        \* the AnalysisResult the turn hands to the evaluator
    age,             \* ticks since the turn's call of process_question
    elapsed,         \* ticks since the turn's wait_for started
    wrote,           \* the turn has called _cache_response
    free,            \* _request_semaphore._value
    concurrent_requests,  \* stats.concurrent_requests
    _request_cache,  \* key -> [response, timestamp]
    lastLookup,      \* the outcome of the latest _check_request_cache
    lastTurn         \* the latest return of process_question

procVars ==
    <<pc, question, analysis, age, elapsed, wrote, free, concurrent_requests,
      _request_cache, lastLookup, lastTurn>>

VARIABLES
    contact_store,   \* the blocks of the file at ContactManager.storage_path
    lastContact      \* the latest call of process_contact_input

contactVars == <<contact_store, lastContact>>

\* the latest call of _process_search_results: its arguments and the list
\* it returned
VARIABLE lastProcessed

\* lastSearch before any search: the arguments of the call, how it went
\* (status), the list it returned (value), whether it raised to its caller
\* instead (raises), the time its result was computed (timestamp) and the
\* number of calls it made to the provider and to the vector store.
NoSearch ==
    [query |-> <<>>, top_k |-> 0, status |-> "none", value |-> <<>>,
     raises |-> FALSE, timestamp |-> 0, embed_calls |-> 0, store_calls |-> 0]

\* A validity test that still accepts an entry whose age equals the TTL
_is_cache_valid_inclusive(timestamp, now) == (now - timestamp) <= cache_ttl_seconds

\* RAGTools._is_cache_valid
_is_cache_valid(timestamp, now) == (now - timestamp) < cache_ttl_seconds

\* A sweep that refreshes the expired entries instead of dropping them
WithoutExpired_refreshing(cache, now) ==
    [key \in DOMAIN cache |->
        IF (now - cache[key].timestamp) < cache_ttl_seconds THEN cache[key]
        ELSE [cache[key] EXCEPT !.timestamp = now]]

\* A dict without the entries whose timestamp is no longer valid
WithoutExpired(cache, now) ==
    [key \in {x \in DOMAIN cache : _is_cache_valid(cache[x].timestamp, now)}
        |-> cache[key]]

\* dict[key] = entry
Put(cache, key, entry) ==
    [x \in DOMAIN cache \cup {key} |-> IF x = key THEN entry ELSE cache[x]]

\* A rag_search that never sweeps
MaybeSwept_never(cache, count, now) == cache

\* The sweep rag_search runs on every cleanup_interval-th query
\* (_cleanup_expired_cache on both caches), or nothing
MaybeSwept(cache, count, now) ==
    IF count % cleanup_interval = 0 THEN WithoutExpired(cache, now) ELSE cache

\* The condition under which rag_search stores a computed result
QueryCacheHasRoom(cache) ==
    enable_query_cache /\ Cardinality(DOMAIN cache) < cache_size

\* The condition under which _get_embedding_with_cache stores an embedding
EmbeddingCacheHasRoom(cache) == Cardinality(DOMAIN cache) < cache_size * 2

\* The lookup of rag_search in the query cache
QueryCacheHit(cache, key, now) ==
    /\ enable_query_cache
    /\ key \in DOMAIN cache
    /\ _is_cache_valid(cache[key].timestamp, now)

\* The lookup of _get_embedding_with_cache in the embedding cache
EmbeddingCacheHit(cache, key, now) ==
    /\ enable_embedding_cache
    /\ key \in DOMAIN cache
    /\ _is_cache_valid(cache[key].timestamp, now)

\* RAGTools.rag_search(query, top_k), one synchronous call.  replies and
\* store are what the collaborators do if they are called.
rag_search(query, top_k, replies, store) ==
    LET count == (total_queries + 1) % cleanup_interval
        key == _get_cache_key(query, top_k)
        qc == MaybeSwept(_query_cache, count, clock)
        ec == MaybeSwept(_embedding_cache, count, clock)
        text == _preprocess_query(query)
        ekey == EmbeddingKey(text)
        embHit == EmbeddingCacheHit(ec, ekey, clock)
        emb == IF embHit THEN [status |-> "ok", calls |-> 0]
               ELSE _embed_texts_with_retry(replies)
        ec2 == IF ~embHit /\ emb.status = "ok" /\ enable_embedding_cache
                  /\ EmbeddingCacheHasRoom(ec)
               THEN Put(ec, ekey, [timestamp |-> clock])
               ELSE ec
        value == SearchResults(text, top_k)
        \* every exit of rag_search is a return: its try block spans the
        \* whole body and its except clause returns []
        Outcome(status, val, ts, ecalls, scalls) ==
            [query |-> query, top_k |-> top_k, status |-> status, value |-> val,
             raises |-> FALSE, timestamp |-> ts, embed_calls |-> ecalls,
             store_calls |-> scalls]
    IN  /\ total_queries' = count
        /\ IF ~_validate_input(query, top_k)
           THEN \* ValueError, caught by the except clause of rag_search
                /\ lastSearch' = Outcome("input_error", <<>>, 0, 0, 0)
                /\ UNCHANGED <<_query_cache, _embedding_cache>>
           ELSE IF QueryCacheHit(qc, key, clock)
           THEN /\ lastSearch' =
                      Outcome("hit", qc[key].value, qc[key].timestamp, 0, 0)
                /\ _query_cache' = qc
                /\ _embedding_cache' = ec
           ELSE IF emb.status # "ok"
           THEN \* the provider raised, or returned no embedding
                /\ lastSearch' = Outcome("embed_failed", <<>>, 0, emb.calls, 0)
                /\ _query_cache' = qc
                /\ _embedding_cache' = ec2
           ELSE IF store = "raise"
           THEN /\ lastSearch' = Outcome("store_failed", <<>>, 0, emb.calls, 1)
                /\ _query_cache' = qc
                /\ _embedding_cache' = ec2
           ELSE /\ _embedding_cache' = ec2
                /\ IF QueryCacheHasRoom(qc)
                   THEN /\ _query_cache' =
                              Put(qc, key, [value |-> value, timestamp |-> clock])
                        /\ lastSearch' = Outcome("stored", value, clock, emb.calls, 1)
                   ELSE /\ _query_cache' = qc
                        /\ lastSearch' = Outcome("unstored", value, clock, emb.calls, 1)

\* Whether a search with these arguments gets as far as the collaborators
CallsUpstream(query, top_k) ==
    /\ _validate_input(query, top_k)
    /\ ~QueryCacheHit(MaybeSwept(_query_cache, (total_queries + 1) % cleanup_interval, clock),
                      _get_cache_key(query, top_k), clock)

\* The replies of the collaborators when no call reaches them
Idle == [i \in 1..max_retries |-> "ok"]

\* A caller (the analysis agent's rag_search_tool, or a script) runs a
\* search with arguments and collaborator behaviours out of the given sets.
RagSearch(queries, topKs, behaviours, stores) ==
    /\ \E query \in queries, top_k \in topKs :
          IF CallsUpstream(query, top_k)
          THEN \E replies \in behaviours, store \in stores :
                  rag_search(query, top_k, replies, store)
          ELSE rag_search(query, top_k, Idle, "ok")
    /\ UNCHANGED <<clock, procVars, contactVars, lastProcessed>>

\* RAGTools.clear_cache
RagClearCache ==
    /\ _query_cache' = <<>>
    /\ _embedding_cache' = <<>>
    /\ lastSearch' = NoSearch
    /\ UNCHANGED <<clock, total_queries, procVars, contactVars, lastProcessed>>

(***************************************************************************)
(* The evaluator's status and the response (evaluate.py, processor.py).    *)
(***************************************************************************)
\* models.AgentDecision: member name -> value
AgentDecision ==
    [RETRIEVE |-> "retrieve", OUT_OF_SCOPE |-> "oos",
     ASK_CLARIFY |-> "clarify", NEEDS_EDIT |-> "needs_edit"]

\* hasattr(AgentDecision, c)
IsMemberName(c) == c \in DOMAIN AgentDecision

\* AgentDecision(c) succeeds: c is the value of a member
IsMemberValue(c) == \E n \in DOMAIN AgentDecision : AgentDecision[n] = c

\* The member AgentDecision(c) returns
MemberOfValue(c) == CHOOSE n \in DOMAIN AgentDecision : AgentDecision[n] = c

\* EvaluateOutput.status: the strings the evaluator's output may carry; any
\* other string fails the validation of the output.  They are lower-case and
\* hold no blank and no hyphen, so strip(), lower() and the two replace()
\* calls of _map_status_to_agent_decision leave them as they are.
EvaluatorStatuses ==
    {"ok", "needs_edit", "needs_clarification", "out_of_scope", "escalate_to_human"}

\* str.upper() on the status strings
StatusUpper(s) ==
    CASE s = "ok" -> "OK"
      [] s = "needs_edit" -> "NEEDS_EDIT"
      [] s = "needs_clarification" -> "NEEDS_CLARIFICATION"
      [] s = "out_of_scope" -> "OUT_OF_SCOPE"
      [] s = "escalate_to_human" -> "ESCALATE_TO_HUMAN"
      [] OTHER -> s

\* name_map.get(s) of _map_status_to_agent_decision ("" stands for None)
name_map(s) ==
    CASE s = "oos" -> "OUT_OF_SCOPE"
      [] s = "out_of_scope" -> "OUT_OF_SCOPE"
      [] s = "clarify" -> "CLARIFY"
      [] s = "needs_clarification" -> "CLARIFY"
      [] s = "ok" -> "RETRIEVE"
      [] s = "needs_edit" -> "NEEDS_EDIT"
      [] s = "escalate_to_human" -> "ESCALATE_TO_HUMAN"
      [] s = "retrieve" -> "RETRIEVE"
      [] OTHER -> ""

\* EvaluateAgent._fallback_status
_fallback_status == "OUT_OF_SCOPE"

\* The candidate names _map_status_to_agent_decision tries, in order
StatusCandidates(s) ==
    << name_map(s), StatusUpper(s),
       "OK", "NEEDS_EDIT", "NEEDS_CLARIFICATION", "OUT_OF_SCOPE",
       "ESCALATE_TO_HUMAN", "RETRIEVE", "CLARIFY" >>

RECURSIVE FirstMember(_)
\* The loop over the candidates: the first one that names a member or is a
\* member's value decides
FirstMember(candidates) ==
    IF candidates = <<>> THEN _fallback_status
    ELSE IF Head(candidates) = "" THEN FirstMember(Tail(candidates))
    ELSE IF IsMemberName(Head(candidates)) THEN Head(candidates)
    ELSE IF IsMemberValue(Head(candidates)) THEN MemberOfValue(Head(candidates))
    ELSE FirstMember(Tail(candidates))

\* EvaluateAgent._map_status_to_agent_decision: the member's name
_map_status_to_agent_decision(status_str) == FirstMember(StatusCandidates(status_str))

(***************************************************************************)
(* The analysis agent and the sources handed to the evaluator              *)
(* (analysis.py, processor.py).                                            *)
(***************************************************************************)
\* The cap of _ensure_sources (uniq[:5])
max_sources == 5

\* The source id lists an AnalysisOutput may carry: none, one, one twice,
\* and one more than the cap.
SourceLists ==
    { <<>>, <<"d1">>, <<"d1", "d1">>, <<"d1", "d2", "d3", "d4", "d5", "d6">> }

\* AnalysisOutput.confidence, in percent
AnalysisConfidences == {30, 90}

\* What the analysis collaborator may do: the call fails, its output cannot
\* be parsed, or it is a valid AnalysisOutput (decision, question_type,
\* confidence, sources).  The contact questions are the ones answered by
\* the get_contact_info tool.
AnalysisReplies ==
    [kind : {"call_failed", "unparseable"}, decision : {"oos"},
     question_type : {"other"}, confidence : {0}, sources : {<<>>}]
    \cup
    [kind : {"valid"}, decision : {"retrieve"},
     question_type : {"fact"}, confidence : AnalysisConfidences,
     sources : SourceLists]
    \cup
    [kind : {"valid"}, decision : {"oos", "clarify"},
     question_type : {"fact"}, confidence : AnalysisConfidences,
     sources : {<<>>}]
    \cup
    [kind : {"valid"}, decision : {"retrieve"}, question_type : {"contact"},
     confidence : {90}, sources : {<<>>}]

\* The reply of an analysis collaborator whose call fails
FailedAnalysis ==
    [kind |-> "call_failed", decision |-> "oos", question_type |-> "other",
     confidence |-> 0, sources |-> <<>>]

\* A valid AnalysisOutput of good confidence with one source
PlainAnalysis ==
    [kind |-> "valid", decision |-> "retrieve", question_type |-> "fact",
     confidence |-> 90, sources |-> <<"d1">>]

\* No AnalysisResult: the turn has not completed its analysis
NoAnalysis ==
    [emitted |-> "none", decision |-> "", question_type |-> "", confidence |-> 0,
     retrievals |-> <<>>, has_sources |-> FALSE, sources |-> <<>>]

\* An analysis whose fallback result carries the middle confidence
analyze_unsure(reply) ==
    [emitted |-> reply.kind,
     decision |-> IF reply.kind = "valid" THEN MemberOfValue(reply.decision)
                  ELSE "OUT_OF_SCOPE",
     question_type |-> reply.question_type,
     confidence |-> IF reply.kind = "valid" THEN reply.confidence ELSE 50,
     retrievals |-> reply.sources, has_sources |-> reply.kind = "valid",
     sources |-> reply.sources]

\* AnalysisAgent.analyze: the AnalysisResult for a reply of the
\* collaborator.  decision is the name of the AgentDecision member,
\* retrievals the doc_ids of the SearchResults rebuilt from the output's
\* sources, has_sources and sources are metadata["sources"].
analyze(reply) ==
    IF reply.kind = "valid"
    THEN [emitted |-> reply.kind, decision |-> MemberOfValue(reply.decision),
          question_type |-> reply.question_type, confidence |-> reply.confidence,
          retrievals |-> reply.sources, has_sources |-> TRUE,
          sources |-> reply.sources]
    ELSE [emitted |-> reply.kind, decision |-> "OUT_OF_SCOPE",
          question_type |-> "other", confidence |-> 0, retrievals |-> <<>>,
          has_sources |-> FALSE, sources |-> <<>>]

RECURSIVE Dedupe(_, _)
\* The loop of _ensure_sources over the collected sources: one of each key
\* (id, loc) is kept, in order; loc is None for every source built here
Dedupe(sources, seen) ==
    IF sources = <<>> THEN <<>>
    ELSE IF Head(sources) \in seen THEN Dedupe(Tail(sources), seen)
    ELSE <<Head(sources)>> \o Dedupe(Tail(sources), seen \cup {Head(sources)})

\* list[:n]
Prefix(list, n) == SubSeq(list, 1, IF Len(list) < n THEN Len(list) ELSE n)

\* ResumeMateProcessor._ensure_sources: the ids of the retrievals, then the
\* ids of metadata["sources"], without duplicates, capped
_ensure_sources(result) ==
    Prefix(Dedupe(result.retrievals \o (IF result.has_sources THEN result.sources ELSE <<>>),
                  {}),
           max_sources)

\* analysis.metadata.setdefault("sources", self._ensure_sources(analysis)):
\* the computed list is stored only if metadata has no "sources" yet
WithSources(result) ==
    IF result.has_sources THEN result
    ELSE [result EXCEPT !.has_sources = TRUE, !.sources = _ensure_sources(result)]

(***************************************************************************)
(* The evaluator's reply (evaluate.py).                                    *)
(***************************************************************************)
\* What the evaluator collaborator may do: fail, answer what cannot be
\* parsed, or answer a valid output with one of the statuses.
EvaluatorReplies == {"call_failed", "unparseable"} \cup EvaluatorStatuses

\* EvaluateAgent.evaluate: the EvaluationResult for a reply of the
\* collaborator.  A text is the sequence of the pieces it is made of.
evaluate(reply) ==
    IF reply \in EvaluatorStatuses
    THEN [final_answer |-> <<"final_answer">>, sources |-> <<"doc">>, confidence |-> 80,
          status |-> _map_status_to_agent_decision(reply)]
    ELSE [final_answer |-> <<"evaluation_failed">>, sources |-> <<>>, confidence |-> 0,
          status |-> _fallback_status]

\* The action hints of _format_system_response:
\* "請提供更多資訊" and "請填寫聯絡表單"
REQUEST_MORE_INFO == "request more info"
REQUEST_CONTACT_FORM == "request contact form"
NoAction == "None"

\* ResumeMateProcessor._format_system_response; confidence in percent
_format_system_response(evaluation) ==
    LET status_str == AgentDecision[evaluation.status]
        conf == IF evaluation.confidence < 0 THEN 0
                ELSE IF evaluation.confidence > 100 THEN 100
                ELSE evaluation.confidence
        action == IF status_str \in {"needs_clarification", "clarify"}
                  THEN REQUEST_MORE_INFO
                  ELSE IF status_str \in {"out_of_scope", "oos"}
                  THEN REQUEST_CONTACT_FORM
                  ELSE IF status_str = "escalate_to_human"
                  THEN REQUEST_CONTACT_FORM
                  ELSE NoAction
    IN  [answer |-> evaluation.final_answer, sources |-> evaluation.sources,
         confidence |-> conf, action |-> action, status |-> status_str]

\* The message of the timeout branch of process_question:
\* "請求處理逾時，請稍後再試。"
TIMEOUT_MESSAGE == "request timed out, try again later"

\* The prefix of the generic error branch of process_question: "處理錯誤: "
PROCESSING_ERROR == "processing error: "

\* The prefix of every error answer: "抱歉，"
SORRY == "sorry, "

\* What str(e) of an exception raised inside the pipeline body may be
ExceptionMessages == {"internal detail"}

\* ResumeMateProcessor._create_error_response; the answer is "抱歉，" followed
\* by the pieces of the message, the action is "請稍後再試或聯繫技術支援"
_create_error_response(error_message) ==
    [answer |-> <<SORRY>> \o error_message, sources |-> <<>>, confidence |-> 0,
     action |-> "retry later or contact support", status |-> "error"]

(***************************************************************************)
(* The request orchestrator (processor.py).                                *)
(***************************************************************************)
\* The turns (coroutines running process_question) that may be in flight.
NTurns == 2
Turns == 1..NTurns
\* ResumeMateProcessor(max_concurrent_requests): the size of the gate.
max_concurrent_requests == 1
\* ResumeMateProcessor.request_timeout (30.0 s in the code), in clock ticks.
request_timeout == 1
\* ResumeMateProcessor.cache_ttl (300 s in the code), in clock ticks.
cache_ttl == 1
\* The size limit of _request_cache (100 in the code), scaled.
request_cache_limit == 1
\* the blocks the contact file is let grow to
MaxContacts == 2
enable_request_cache == TRUE

\* The question texts handed to process_question.
Questions == { <<"A">>, <<" ", "a">>, <<"b">> }

NoResponse ==
    [answer |-> <<>>, sources |-> <<>>, confidence |-> 0, action |-> NoAction,
     status |-> ""]

\* The request counters of ProcessingStats, counted from a call's start
NoCount ==
    [total_requests |-> 0, successful_requests |-> 0, failed_requests |-> 0]

\* ProcessingStats.update_timing, as far as the counters go
update_timing(stats) ==
    [stats EXCEPT !.total_requests = stats.total_requests + 1]

\* ProcessingStats.success
success(stats) ==
    [stats EXCEPT !.successful_requests = stats.successful_requests + 1]

\* ProcessingStats.failure
failure(stats) ==
    [stats EXCEPT !.failed_requests = stats.failed_requests + 1]

\* What one call of process_question adds to the counters, by the way it
\* ends.  A cache hit counts a success in _process_question_internal; a
\* fresh response counts a success and a timing there; an exception of the
\* pipeline body counts a failure in the except clause of
\* _process_question_internal and another in that of process_question; the
\* deadline counts a failure in process_question only (the cancellation is
\* no Exception).  The finally clause of process_question counts a timing
\* in every case.
Counted(how) ==
    update_timing(
        IF how = "cached" THEN success(NoCount)
        ELSE IF how = "fresh" THEN update_timing(success(NoCount))
        ELSE IF how = "error" THEN failure(failure(NoCount))
        ELSE failure(NoCount))

\* lastTurn before any turn has returned.  outcome tells how the turn ended
\* (cached, fresh, timeout, error), emitted what the evaluator collaborator
\* replied in it, or the await point at which the deadline cancelled it, or
\* the message of the exception that ended it, wrote
\* whether the turn called _cache_response, cache_age is
\* metadata["cache_age"] of a cached response, analysis the AnalysisResult
\* the turn handed to the evaluator, counted what the call added to the
\* counters of stats.
NoTurn ==
    [outcome |-> "", emitted |-> "", wrote |-> FALSE, cache_age |-> 0,
     analysis |-> NoAnalysis, response |-> NoResponse, counted |-> NoCount]

\* The key of _request_cache: hash(question_text.strip().lower())
RequestKey(question_text) == Lower(Strip(question_text))

\* The test of _check_request_cache on an entry's timestamp
RequestEntryFresh(timestamp, now) == now - timestamp < cache_ttl

\* min(cache.keys(), key=timestamp) of _cache_response; among entries of
\* equal timestamp the dict's first one is taken, here any of them
OldestKeys(cache) ==
    {k \in DOMAIN cache : \A x \in DOMAIN cache : cache[k].timestamp <= cache[x].timestamp}

\* A dict without a key
Without(cache, key) == [x \in DOMAIN cache \ {key} |-> cache[x]]

\* A _cache_response that evicts nothing
_cache_response_keeping(cache, question_text, resp, now, oldest_key) ==
    Put(cache, RequestKey(question_text), [response |-> resp, timestamp |-> now])

\* ResumeMateProcessor._cache_response with the entry it evicts when it
\* finds the cache at its limit
_cache_response(cache, question_text, resp, now, oldest_key) ==
    LET room == IF Cardinality(DOMAIN cache) >= request_cache_limit
                THEN Without(cache, oldest_key)
                ELSE cache
    IN  Put(room, RequestKey(question_text), [response |-> resp, timestamp |-> now])

\* The turn returns from process_question with a response: its record is
\* cleared and the finally clause counts it out.
Leave(t, how, reply, resp, cacheAge, hasWritten) ==
    /\ pc' = [pc EXCEPT ![t] = "idle"]
    /\ question' = [question EXCEPT ![t] = <<>>]
    /\ age' = [age EXCEPT ![t] = 0]
    /\ elapsed' = [elapsed EXCEPT ![t] = 0]
    /\ wrote' = [wrote EXCEPT ![t] = FALSE]
    /\ analysis' = [analysis EXCEPT ![t] = NoAnalysis]
    /\ lastTurn' =
          [outcome |-> how, emitted |-> reply, wrote |-> hasWritten,
           cache_age |-> cacheAge, analysis |-> analysis[t], response |-> resp,
           counted |-> Counted(how)]

\* A pipeline body that goes to the evaluation at once, without the analysis
Enter_skipping(t, question_text) ==
    /\ pc' = [pc EXCEPT ![t] = "evaluation"]
    /\ question' = [question EXCEPT ![t] = question_text]
    /\ elapsed' = [elapsed EXCEPT ![t] = 0]
    /\ free' = free - 1
    /\ UNCHANGED <<analysis, wrote, lastTurn, _request_cache, lastLookup>>

\* The turn has the gate: wait_for starts _process_question_internal, which
\* runs up to its first await, the analysis, unless the request cache
\* answers (then the turn returns at once and the gate is as before).
Enter(t, question_text) ==
    LET key == RequestKey(question_text)
        present == enable_request_cache /\ key \in DOMAIN _request_cache
        fresh == present /\ RequestEntryFresh(_request_cache[key].timestamp, clock)
    IN  IF fresh
        THEN /\ Leave(t, "cached", "", _request_cache[key].response,
                      clock - _request_cache[key].timestamp, FALSE)
             /\ lastLookup' = "hit"
             /\ UNCHANGED <<free, _request_cache>>
        ELSE /\ pc' = [pc EXCEPT ![t] = "analysis"]
             /\ question' = [question EXCEPT ![t] = question_text]
             /\ elapsed' = [elapsed EXCEPT ![t] = 0]
             /\ free' = free - 1
             /\ _request_cache' =
                   IF present THEN Without(_request_cache, key) ELSE _request_cache
             /\ lastLookup' =
                   IF ~enable_request_cache THEN lastLookup
                   ELSE IF present THEN "expired" ELSE "miss"
             /\ UNCHANGED <<analysis, wrote, lastTurn>>

\* A gate that lets every caller through
GateOpen_always == TRUE

\* The test of asyncio.Semaphore.acquire: a slot is free
GateOpen == free > 0

\* process_question is called with one of the given questions: the turn
\* takes a slot of the gate if one is free, and waits for one otherwise.
Call(t, questions) ==
    /\ pc[t] = "idle"
    /\ \E question_text \in questions :
          IF GateOpen
          THEN /\ Enter(t, question_text)
               /\ concurrent_requests' =
                     IF pc'[t] = "idle" THEN concurrent_requests
                     ELSE concurrent_requests + 1
               /\ IF pc'[t] = "idle" THEN TRUE ELSE age' = [age EXCEPT ![t] = 0]
          ELSE /\ pc' = [pc EXCEPT ![t] = "waiting"]
               /\ question' = [question EXCEPT ![t] = question_text]
               /\ age' = [age EXCEPT ![t] = 0]
               /\ concurrent_requests' = concurrent_requests + 1
               /\ UNCHANGED <<analysis, elapsed, wrote, free, _request_cache,
                              lastLookup, lastTurn>>
    /\ UNCHANGED <<clock, ragVars, contactVars, lastProcessed>>

\* A turn waiting at the gate gets a released slot.
Admit(t) ==
    /\ pc[t] = "waiting"
    /\ GateOpen
    /\ Enter(t, question[t])
    /\ concurrent_requests' =
          IF pc'[t] = "idle" THEN concurrent_requests - 1 ELSE concurrent_requests
    /\ IF pc'[t] = "idle" THEN TRUE ELSE UNCHANGED age
    /\ UNCHANGED <<clock, ragVars, contactVars, lastProcessed>>

\* analysis_agent.analyze returns with one of the given replies of the
\* collaborator; the sources are filled in and the turn goes on to await
\* the evaluation.
AnalysisDone(t, replies) ==
    /\ pc[t] = "analysis"
    /\ pc' = [pc EXCEPT ![t] = "evaluation"]
    /\ \E reply \in replies :
          analysis' = [analysis EXCEPT ![t] = WithSources(analyze(reply))]
    /\ UNCHANGED <<question, age, elapsed, wrote, free, concurrent_requests,
                   _request_cache, lastLookup, lastTurn>>
    /\ UNCHANGED <<clock, ragVars, contactVars, lastProcessed>>

\* evaluate_agent.evaluate returns with one of the given replies of the
\* collaborator; the response is formatted, cached and returned, and the
\* gate is released.
EvaluationDone(t, replies) ==
    /\ pc[t] = "evaluation"
    /\ \E reply \in replies :
          LET final_response == _format_system_response(evaluate(reply))
          IN  /\ IF enable_request_cache
                 THEN \E oldest_key \in
                         IF _request_cache = <<>> THEN {<<>>}
                         ELSE OldestKeys(_request_cache) :
                         _request_cache' =
                            _cache_response(_request_cache, question[t],
                                            final_response, clock, oldest_key)
                 ELSE UNCHANGED _request_cache
              /\ Leave(t, "fresh", reply, final_response, 0,
                       wrote[t] \/ enable_request_cache)
    /\ free' = free + 1
    /\ concurrent_requests' = concurrent_requests - 1
    /\ UNCHANGED <<lastLookup, clock, ragVars, contactVars, lastProcessed>>

\* A timeout that leaves the slot of the gate taken
Timeout_holding(t) ==
    /\ pc[t] \in {"analysis", "evaluation"}
    /\ elapsed[t] >= request_timeout
    /\ Leave(t, "timeout", pc[t], _create_error_response(<<TIMEOUT_MESSAGE>>), 0, wrote[t])
    /\ concurrent_requests' = concurrent_requests - 1
    /\ UNCHANGED <<free, _request_cache, lastLookup, clock, ragVars, contactVars, lastProcessed>>

\* A timeout branch that caches the response it returns
Timeout_caching(t) ==
    /\ pc[t] \in {"analysis", "evaluation"}
    /\ elapsed[t] >= request_timeout
    /\ Leave(t, "timeout", pc[t], _create_error_response(<<TIMEOUT_MESSAGE>>), 0, TRUE)
    /\ free' = free + 1
    /\ concurrent_requests' = concurrent_requests - 1
    /\ _request_cache' =
          Put(_request_cache, RequestKey(question[t]),
              [response |-> _create_error_response(<<TIMEOUT_MESSAGE>>),
               timestamp |-> clock])
    /\ UNCHANGED <<lastLookup, clock, ragVars, contactVars, lastProcessed>>

\* The deadline of wait_for passes while the turn awaits an agent: the turn
\* is cancelled, process_question returns the timeout response and the gate
\* is released.
Timeout(t) ==
    /\ pc[t] \in {"analysis", "evaluation"}
    /\ elapsed[t] >= request_timeout
    /\ Leave(t, "timeout", pc[t], _create_error_response(<<TIMEOUT_MESSAGE>>), 0, wrote[t])
    /\ free' = free + 1
    /\ concurrent_requests' = concurrent_requests - 1
    /\ UNCHANGED <<_request_cache, lastLookup, clock, ragVars, contactVars, lastProcessed>>

\* A statement of the pipeline body raises an Exception while the turn
\* awaits an agent (an agent object that lets a failure through, for
\* instance): _process_question_internal re-raises it, process_question
\* returns the error response made of its message and the gate is released.
Fail(t, messages) ==
    /\ pc[t] \in {"analysis", "evaluation"}
    /\ \E e \in messages :
          Leave(t, "error", e, _create_error_response(<<PROCESSING_ERROR, e>>), 0,
                wrote[t])
    /\ free' = free + 1
    /\ concurrent_requests' = concurrent_requests - 1
    /\ UNCHANGED <<_request_cache, lastLookup, clock, ragVars, contactVars, lastProcessed>>

\* ResumeMateProcessor.reset_stats: stats becomes a new ProcessingStats,
\* whose concurrent_requests is 0, whatever turns are in flight
ResetStats ==
    /\ concurrent_requests' = 0
    /\ UNCHANGED <<pc, question, analysis, age, elapsed, wrote, free,
                   _request_cache, lastLookup, lastTurn, clock, ragVars,
                   contactVars, lastProcessed>>

\* ResumeMateProcessor.clear_cache: the request cache is emptied (the
\* RAGTools instance it also clears is the processor's own, which no search
\* goes through)
ProcClearCache ==
    /\ _request_cache' = <<>>
    /\ UNCHANGED <<pc, question, analysis, age, elapsed, wrote, free,
                   concurrent_requests, lastLookup, lastTurn, clock, ragVars, contactVars, lastProcessed>>

\* Time passes by one tick.  The timer of wait_for fires when it is due:
\* no tick passes over the deadline of a turn that awaits an agent.
Tick ==
    /\ clock < MaxTime
    /\ \A t \in Turns : pc[t] \in {"analysis", "evaluation"} => elapsed[t] < request_timeout
    /\ clock' = clock + 1
    /\ age' = [t \in Turns |->
                 IF pc[t] # "idle" /\ age[t] <= request_timeout
                 THEN age[t] + 1 ELSE age[t]]
    /\ elapsed' = [t \in Turns |->
                     IF pc[t] \in {"analysis", "evaluation"}
                     THEN elapsed[t] + 1 ELSE elapsed[t]]
    /\ UNCHANGED <<ragVars, contactVars, lastProcessed>>
    /\ UNCHANGED <<pc, question, analysis, wrote, free, concurrent_requests,
                   _request_cache, lastLookup, lastTurn>>

(***************************************************************************)
(* The result list of a search (RAGTools._process_search_results).         *)
(***************************************************************************)
\* Distances are counted in hundredths, similarities and scores in
\* two-hundredths: similarity 1.0 is 200 and (2 - distance) / 2 is
\* 200 - distance, without rounding.
One == 200
\* RAGConfig.similarity_threshold (0.1)
similarity_threshold == 20
\* RAGConfig.result_reranking
result_reranking == TRUE
\* the candidates the vector store is let return to one query
MaxCandidates == 3

\* The distances the vector store reports: a little below 0 and above 2
\* (rounding of the cosine), near, on the threshold and beyond it
StoreDistances == {0 - 2, 40, 60, 180, 190, 210}
\* The documents of the collection
StoreDocuments == {<<"x">>, <<"a">>}
StoreCandidates == [distance : StoreDistances, document : StoreDocuments]
\* What collection.query returns for one query: the nearest first
StoreResults ==
    {results \in UNION {[1..n -> StoreCandidates] : n \in 0..MaxCandidates} :
        \A i \in 1..(Len(results) - 1) :
            results[i].distance <= results[i + 1].distance}
\* The processed queries and the top_k handed to _process_search_results
ProcessedQueries == {<<"A">>, <<"b", " ", "a">>}
ProcessedTopKs == {1, 2}

\* A conversion that does not clamp
Similarity_unclamped(distance) == One - distance

\* max(0.0, min(1.0, (2.0 - distance) / 2.0))
Similarity(distance) ==
    LET raw == One - distance
        capped == IF raw < One THEN raw ELSE One
    IN  IF capped > 0 THEN capped ELSE 0

RECURSIVE Split(_, _)
\* str.split(): the words of s, word being the one in progress
Split(s, word) ==
    IF s = <<>> THEN (IF word = <<>> THEN {} ELSE {word})
    ELSE IF Head(s) \in Whitespace
         THEN (IF word = <<>> THEN {} ELSE {word}) \cup Split(Tail(s), <<>>)
         ELSE Split(Tail(s), Append(word, Head(s)))

\* set(query.lower().split())
query_tokens(query) == Split(Lower(query), <<>>)

\* token in content
Contains(content, token) ==
    \E i \in 1..(Len(content) - Len(token) + 1) :
        SubSeq(content, i, i + Len(token) - 1) = token

\* calculate_relevance_score of _rerank_results, times 10 and times the
\* number of tokens of the query (1 if it has none): score * 0.7 +
\* keyword_score * 0.3, keyword_score being the share of the tokens that
\* the excerpt contains
calculate_relevance_score(result, query) ==
    LET tokens == query_tokens(query)
        keyword_matches ==
            Cardinality({token \in tokens : Contains(Lower(result.excerpt), token)})
        n == IF tokens = {} THEN 1 ELSE Cardinality(tokens)
    IN  7 * result.score * n + 3 * One * keyword_matches

RECURSIVE InsertByScore(_, _, _)
\* result put into a list sorted by decreasing relevance, behind the
\* results of the same relevance
InsertByScore(result, sorted, query) ==
    IF sorted = <<>> THEN <<result>>
    ELSE IF calculate_relevance_score(Head(sorted), query)
               >= calculate_relevance_score(result, query)
         THEN <<Head(sorted)>> \o InsertByScore(result, Tail(sorted), query)
         ELSE <<result>> \o sorted

RECURSIVE SortByScore(_, _, _)
\* list.sort(key=calculate_relevance_score, reverse=True): stable
SortByScore(results, sorted, query) ==
    IF results = <<>> THEN sorted
    ELSE SortByScore(Tail(results), InsertByScore(Head(results), sorted, query),
                     query)

\* RAGTools._rerank_results
_rerank_results(results, query) == SortByScore(results, <<>>, query)

RECURSIVE Converted(_, _)
\* the loop of _process_search_results over the candidates from the i-th
\* on: a SearchResult for each whose similarity reaches the threshold
Converted(results, i) ==
    IF i > Len(results) THEN <<>>
    ELSE LET similarity == Similarity(results[i].distance)
         IN  IF similarity < similarity_threshold
             THEN Converted(results, i + 1)
             ELSE << [doc_id |-> i, score |-> similarity,
                      excerpt |-> results[i].document] >>
                  \o Converted(results, i + 1)

\* RAGTools._process_search_results
_process_search_results(results, query, top_k) ==
    LET search_results == Converted(results, 1)
        ranked == IF result_reranking /\ Len(search_results) > top_k
                  THEN _rerank_results(search_results, query)
                  ELSE search_results
    IN  Prefix(ranked, top_k)

\* lastProcessed before any call
NoProcessed ==
    [results |-> <<>>, query |-> <<>>, top_k |-> 0, returned |-> TRUE,
     value |-> <<>>]

\* search_top_k of rag_search: the n_results asked of the vector store
search_top_k(top_k) ==
    IF result_reranking
    THEN (IF top_k * 2 < max_top_k THEN top_k * 2 ELSE max_top_k)
    ELSE top_k

\* The calls of _process_search_results that a search which missed the
\* cache can make: on what the vector store returned to it, at most
\* search_top_k candidates
PendingCalls ==
    {call \in [results : StoreResults, query : ProcessedQueries,
               top_k : ProcessedTopKs, returned : {FALSE}, value : {<<>>}] :
        Len(call.results) <= search_top_k(call.top_k)}

\* The call of _process_search_results returns.
ProcessSearchResults ==
    /\ ~lastProcessed.returned
    /\ lastProcessed' =
          [lastProcessed EXCEPT
              !.returned = TRUE,
              !.value = _process_search_results(lastProcessed.results,
                                                lastProcessed.query,
                                                lastProcessed.top_k)]
    /\ UNCHANGED <<clock, ragVars, procVars, contactVars>>

(***************************************************************************)
(* The contact tool (tools/contact.py).                                    *)
(***************************************************************************)
\* A user text is given by what the patterns of parse_contact_info find in
\* it: for the name and for the Line id, the first match of each pattern
\* that matches, in the order the loops try them; for the other fields the
\* list re.findall returns.  None and "" are both <<>>.
Chars(n, c) == [i \in 1..n |-> c]
Phone09 == <<"0", "9", "1", "2", "3", "4", "5", "6", "7", "8">>
PhoneDashed == <<"0", "9", "1", "2", "-", "3", "4", "5", "-", "6", "7", "8">>
Phone886 == <<"+", "8", "8", "6", "-", "9", "1", "2", "3", "4", "5", "6", "7", "8">>
Phone9 == <<"9", "1", "2", "3", "4", "5", "6", "7", "8">>
EmailAB == <<"a", "@", "b", ".", "c", "o">>
EmailCD == <<"c", "@", "d", ".", "c", "o">>
\* the shapes phone_pattern matches
PhoneShapes == {Phone09, PhoneDashed, Phone886, Phone9}
NoMatches ==
    [names |-> <<>>, emails |-> <<>>, phones |-> <<>>, lines |-> <<>>,
     telegrams |-> <<>>]
ContactTexts ==
    { NoMatches,
      [NoMatches EXCEPT !.names = << <<"A", "l">> >>],
      [NoMatches EXCEPT !.names = << <<" ">>, Chars(31, "n") >>],
      [NoMatches EXCEPT !.names = << <<" ">>, <<" ", "A", "l">> >>,
                        !.emails = << EmailAB, EmailCD >>,
                        !.phones = << Phone886 >>,
                        !.telegrams = << <<"b">> >>],
      [NoMatches EXCEPT !.phones = << PhoneDashed, Phone9 >>],
      [NoMatches EXCEPT !.names = << <<"A", "l">> >>, !.phones = << Phone9 >>],
      [NoMatches EXCEPT !.lines = << Phone09, <<"i", "d">> >>],
      [NoMatches EXCEPT !.lines = << Chars(21, "l") >>,
                        !.telegrams = << Chars(33, "t") >>] }
\* the original_question handed along, None or a text
OriginalQuestions == {<<>>, <<"q">>}
\* how the write to the file goes: it is written, it cannot be opened (or
\* its directory cannot be made), or the write breaks off midway
StoreOutcomes == {"ok", "fail", "torn"}

\* ContactInfo()
EmptyContact ==
    [name |-> <<>>, email |-> <<>>, phone |-> <<>>, line_id |-> <<>>,
     telegram |-> <<>>]

\* ContactInfo.has_contact_method
has_contact_method(contact) ==
    \/ contact.email # <<>>
    \/ contact.phone # <<>>
    \/ contact.line_id # <<>>
    \/ contact.telegram # <<>>

\* ContactInfo.is_empty
is_empty(contact) == contact.name = <<>> /\ ~has_contact_method(contact)

\* phone_pattern.match(s): a phone shape starts s
phone_pattern_match(s) ==
    \E p \in PhoneShapes : Len(s) >= Len(p) /\ SubSeq(s, 1, Len(p)) = p

\* email_pattern.match(s): s starts with a local part, "@", a domain, "."
\* and two letters at least (the texts here hold no character outside the
\* classes of the pattern)
email_pattern_match(s) ==
    \E i \in 2..Len(s) :
        /\ s[i] = "@"
        /\ \E j \in (i + 2)..(Len(s) - 2) : s[j] = "."

\* phone.replace("-", "").replace(" ", "")
Cleaned(phone) == SelectSeq(phone, LAMBDA c : c \notin {"-", " "})

\* the standard form parse_contact_info gives a phone match
NormalizedPhone(match) ==
    LET phone == Cleaned(match)
    IN  IF Len(phone) >= 4 /\ SubSeq(phone, 1, 4) = <<"+", "8", "8", "6">>
        THEN <<"0">> \o SubSeq(phone, 5, Len(phone))
        ELSE phone

RECURSIVE FirstName(_)
\* the loop over name_patterns: the first candidate of 1 to 30 characters
\* once stripped
FirstName(candidates) ==
    IF candidates = <<>> THEN <<>>
    ELSE LET name_candidate == Strip(Head(candidates))
         IN  IF 1 <= Len(name_candidate) /\ Len(name_candidate) <= 30
             THEN name_candidate
             ELSE FirstName(Tail(candidates))

RECURSIVE FirstLine(_)
\* the loop over line_indicators: the first candidate that is neither an
\* email nor a phone
FirstLine(candidates) ==
    IF candidates = <<>> THEN <<>>
    ELSE IF ~email_pattern_match(Head(candidates))
            /\ ~phone_pattern_match(Head(candidates))
         THEN Head(candidates)
         ELSE FirstLine(Tail(candidates))

\* ContactParser.parse_contact_info
parse_contact_info(text) ==
    [name |-> FirstName(text.names),
     email |-> IF text.emails # <<>> THEN Head(text.emails) ELSE <<>>,
     phone |-> IF text.phones # <<>> THEN NormalizedPhone(Head(text.phones))
               ELSE <<>>,
     line_id |-> FirstLine(text.lines),
     telegram |-> IF text.telegrams # <<>> THEN Head(text.telegrams) ELSE <<>>]

\* str.isdigit()
IsDigit(s) ==
    /\ s # <<>>
    /\ \A i \in 1..Len(s) :
           s[i] \in {"0", "1", "2", "3", "4", "5", "6", "7", "8", "9"}

\* the errors validate_contact_info collects for a contact that has a
\* contact method
FieldErrors(contact) ==
    (IF contact.email # <<>> /\ ~email_pattern_match(contact.email)
     THEN <<"email">> ELSE <<>>)
    \o (IF contact.phone # <<>>
           /\ ~(/\ Len(Cleaned(contact.phone)) = 10
                /\ SubSeq(Cleaned(contact.phone), 1, 2) = <<"0", "9">>
                /\ IsDigit(Cleaned(contact.phone)))
        THEN <<"phone">> ELSE <<>>)
    \o (IF contact.name # <<>>
           /\ (Len(Strip(contact.name)) = 0 \/ Len(contact.name) > 30)
        THEN <<"name">> ELSE <<>>)
    \o (IF Len(contact.line_id) > 20 THEN <<"line_id">> ELSE <<>>)
    \o (IF Len(contact.telegram) > 32 THEN <<"telegram">> ELSE <<>>)

\* validate_contact_info that takes a name for a contact method
validate_contact_info_by_name(contact) ==
    IF is_empty(contact)
    THEN [is_valid |-> FALSE, errors |-> <<"no_contact_method">>]
    ELSE [is_valid |-> FieldErrors(contact) = <<>>,
          errors |-> FieldErrors(contact)]

\* ContactParser.validate_contact_info
validate_contact_info(contact) ==
    IF ~has_contact_method(contact)
    THEN [is_valid |-> FALSE, errors |-> <<"no_contact_method">>]
    ELSE [is_valid |-> FieldErrors(contact) = <<>>,
          errors |-> FieldErrors(contact)]

\* the block save_contact_info writes: complete, or broken off
Block(contact, original_question, complete) ==
    [timestamp |-> clock, original_question |-> original_question,
     contact |-> contact, complete |-> complete]

\* lastContact before any call
NoContact ==
    [text |-> NoMatches, original_question |-> <<>>, parsed |-> EmptyContact,
     is_valid |-> FALSE, errors |-> <<>>, store |-> "none",
     success |-> FALSE, message |-> "none", contact |-> EmptyContact]

\* ContactManager.process_contact_input, save_contact_info included.  The
\* file is opened for appending: what it holds stays, a block is added at
\* its end.
ProcessContactInput(texts, questions, outcomes) ==
    /\ Len(contact_store) < MaxContacts
    /\ \E text \in texts, original_question \in questions, outcome \in outcomes :
         LET contact == parse_contact_info(text)
             checked == validate_contact_info(contact)
             saved   == outcome = "ok"
             call    == [text |-> text, original_question |-> original_question,
                         parsed |-> contact, is_valid |-> checked.is_valid,
                         errors |-> checked.errors]
         IN  IF ~checked.is_valid
             THEN /\ lastContact' =
                       call @@ [store |-> "none", success |-> FALSE,
                                message |-> "invalid", contact |-> EmptyContact]
                  /\ UNCHANGED contact_store
             ELSE /\ contact_store' =
                       IF outcome = "fail" THEN contact_store
                       ELSE Append(contact_store,
                                   Block(contact, original_question, saved))
                  /\ lastContact' =
                       call @@ [store |-> outcome, success |-> saved,
                                message |-> IF saved THEN "received"
                                            ELSE "save_error",
                                contact |-> IF saved THEN contact
                                            ELSE EmptyContact]
    /\ UNCHANGED <<clock, ragVars, procVars, lastProcessed>>

vars == <<clock, ragVars, procVars, contactVars, lastProcessed>>

\* The state after construction, but for the call of
\* _process_search_results under study
Constructed ==
    /\ clock = 0
    /\ _query_cache = <<>>
    /\ _embedding_cache = <<>>
    /\ total_queries = 0
    /\ lastSearch = NoSearch
    /\ pc = [t \in Turns |-> "idle"]
    /\ question = [t \in Turns |-> <<>>]
    /\ analysis = [t \in Turns |-> NoAnalysis]
    /\ age = [t \in Turns |-> 0]
    /\ elapsed = [t \in Turns |-> 0]
    /\ wrote = [t \in Turns |-> FALSE]
    /\ free = max_concurrent_requests
    /\ concurrent_requests = 0
    /\ _request_cache = <<>>
    /\ lastLookup = "none"
    /\ lastTurn = NoTurn
    /\ contact_store = <<>>
    /\ lastContact = NoContact

Init ==
    /\ Constructed
    /\ lastProcessed = NoProcessed

\* The state in which a call of _process_search_results is about to return
InitResults ==
    /\ Constructed
    /\ lastProcessed \in PendingCalls

\* The steps of the retrieval cache, whatever its callers and its
\* collaborators do.
NextRag ==
    \/ RagSearch(RawQueries, TopKs, ProviderBehaviours, StoreReplies)
    \/ RagClearCache
    \/ Tick

\* The steps of the orchestrator when its callers call it one at a time,
\* whatever they ask and whatever the evaluator replies.
NextTurn ==
    \/ Call(1, Questions)
    \/ AnalysisDone(1, {PlainAnalysis})
    \/ EvaluationDone(1, EvaluatorReplies)
    \/ Timeout(1)
    \/ ProcClearCache
    \/ Tick

\* The steps of the orchestrator under concurrent callers that ask the same
\* question, whatever the evaluator replies, the analysis answering or
\* failing.
NextGate ==
    \/ \E t \in Turns : Call(t, {<<"A">>})
    \/ \E t \in Turns : Admit(t)
    \/ \E t \in Turns : AnalysisDone(t, {PlainAnalysis, FailedAnalysis})
    \/ \E t \in Turns : EvaluationDone(t, EvaluatorReplies)
    \/ \E t \in Turns : Timeout(t)
    \/ Tick

\* The steps of the three caches: sequential turns and searches whose
\* collaborators answer.
NextCaches ==
    \/ Call(1, Questions)
    \/ AnalysisDone(1, {PlainAnalysis})
    \/ EvaluationDone(1, {"ok"})
    \/ Timeout(1)
    \/ RagSearch({<<"A">>, <<" ", "a">>}, {1}, {Idle}, {"ok"})
    \/ Tick

\* The steps of one turn after the other, whatever the analysis and the
\* evaluator collaborators reply.
NextAgents ==
    \/ Call(1, {<<"A">>, <<>>})
    \/ AnalysisDone(1, AnalysisReplies)
    \/ EvaluationDone(1, EvaluatorReplies)
    \/ Timeout(1)
    \/ Fail(1, ExceptionMessages)
    \/ Tick

\* The steps that fill and empty the three caches: searches over three
\* texts, sequential turns over two questions, the clears and the passing of
\* time that lets the sweeps find expired entries, the collaborators
\* answering.
NextBounds ==
    \/ RagSearch({<<"A">>, <<" ", "a">>, <<"b">>}, {1}, {Idle}, {"ok"})
    \/ RagClearCache
    \/ Call(1, {<<"A">>, <<"b">>})
    \/ AnalysisDone(1, {PlainAnalysis})
    \/ EvaluationDone(1, {"ok"})
    \/ ProcClearCache
    \/ Tick

\* The steps of the result processing, whatever the vector store returns
\* and whatever the query and top_k.
NextResults ==
    ProcessSearchResults

\* The steps of the orchestrator under concurrent callers whose turns end in
\* every way: by a response, by the deadline, by an exception.
NextSlots ==
    \/ \E t \in Turns : Call(t, {<<"A">>})
    \/ \E t \in Turns : Admit(t)
    \/ \E t \in Turns : AnalysisDone(t, {PlainAnalysis})
    \/ \E t \in Turns : EvaluationDone(t, {"ok"})
    \/ \E t \in Turns : Timeout(t)
    \/ \E t \in Turns : Fail(t, ExceptionMessages)
    \/ Tick

\* A turn that has the gate ends
Ends(t) ==
    \/ AnalysisDone(t, {PlainAnalysis})
    \/ EvaluationDone(t, {"ok"})
    \/ Timeout(t)
    \/ Fail(t, ExceptionMessages)

\* Every admitted turn ends, and the semaphore wakes its waiters in turn: a
\* waiter for which a slot is free again and again gets one.
SlotsFairness ==
    \A t \in Turns : WF_vars(Ends(t)) /\ SF_vars(Admit(t))

\* The steps of the orchestrator under concurrent callers, the statistics
\* being reset at any moment.
NextStats ==
    \/ \E t \in Turns : Call(t, {<<"A">>})
    \/ \E t \in Turns : Admit(t)
    \/ \E t \in Turns : AnalysisDone(t, {PlainAnalysis})
    \/ \E t \in Turns : EvaluationDone(t, {"ok"})
    \/ \E t \in Turns : Timeout(t)
    \/ ResetStats
    \/ Tick

\* The steps of the contact tool, whatever the users submit and whatever
\* becomes of the write.
NextContact ==
    ProcessContactInput(ContactTexts, OriginalQuestions, StoreOutcomes)

\* The retrieval cache alone, no turn in flight.
SpecRag == Init /\ [][NextRag]_vars

\* The orchestrator under sequential callers.
SpecTurn == Init /\ [][NextTurn]_vars

\* The orchestrator under concurrent callers.
SpecGate == Init /\ [][NextGate]_vars

\* The query cache, the embedding cache and the request cache together.
SpecCaches == Init /\ [][NextCaches]_vars

\* The agents of a turn and what the orchestrator makes of their replies.
SpecAgents == Init /\ [][NextAgents]_vars

\* The result lists: a call of _process_search_results, whatever the vector
\* store returned, the query and top_k.
SpecResults == InitResults /\ [][NextResults]_vars

\* The gate under concurrent callers, every admitted turn ending.
SpecSlots == Init /\ [][NextSlots]_vars /\ SlotsFairness

\* The counter of the calls in flight, under concurrent callers and resets.
SpecStats == Init /\ [][NextStats]_vars

\* The sizes of the three caches.
SpecBounds == Init /\ [][NextBounds]_vars

\* The contact tool: one submission after the other, whatever the text and
\* whatever becomes of the write.
SpecContact == Init /\ [][NextContact]_vars

(***************************************************************************)
(* Properties.                                                             *)
(***************************************************************************)
\* A step is a call of rag_search iff the query counter moves.
IsSearchStep == total_queries' # total_queries

\* The outcomes of a search that reached the collaborators and failed there
FailedStatuses == {"embed_failed", "store_failed"}

\* The outcomes of a search that computed a result list
ComputedStatuses == {"stored", "unstored"}

\* C1: of two successive searches whose queries differ only by case and
\* surrounding blanks and whose top_k is equal, the first having computed
\* its result and the second being made before that result's TTL has
\* elapsed, the second is a cache hit that returns the value of the first
\* and calls neither the provider nor the vector store.
C1_SecondSearchIsServedFromCache ==
    [][(/\ IsSearchStep
        /\ lastSearch.status \in ComputedStatuses
        /\ _get_cache_key(lastSearch'.query, lastSearch'.top_k)
              = _get_cache_key(lastSearch.query, lastSearch.top_k)
        /\ clock - lastSearch.timestamp < cache_ttl_seconds)
       => (/\ lastSearch'.status = "hit"
           /\ lastSearch'.value = lastSearch.value
           /\ lastSearch'.embed_calls = 0
           /\ lastSearch'.store_calls = 0)]_vars

\* C2: a lookup made when now - timestamp >= ttl for the stored entry
\* behaves as a miss, in each cache: a search whose key has such an entry in
\* the query cache is not a hit, a search that reaches the embedding step
\* with such an entry for its text calls the provider, and a turn answered
\* from the request cache was answered from an entry younger than its TTL.
C2_FreshnessLaw ==
    /\ [](lastTurn.outcome = "cached" => lastTurn.cache_age < cache_ttl)
    /\ [][IsSearchStep =>
            LET key == _get_cache_key(lastSearch'.query, lastSearch'.top_k)
                ekey == EmbeddingKey(_preprocess_query(lastSearch'.query))
            IN  /\ (/\ key \in DOMAIN _query_cache
                    /\ clock - _query_cache[key].timestamp >= cache_ttl_seconds)
                   => lastSearch'.status # "hit"
                /\ (/\ lastSearch'.status \in ComputedStatuses \cup FailedStatuses
                    /\ ekey \in DOMAIN _embedding_cache
                    /\ clock - _embedding_cache[ekey].timestamp >= cache_ttl_seconds)
                   => lastSearch'.embed_calls >= 1]_vars

\* C2 witness: a turn has found an expired entry in the request cache, and
\* the latest search recomputed (provider called) a result for a key whose
\* entry in the query cache had expired by then.
C2_Witness ==
    /\ lastLookup = "expired"
    /\ lastSearch.status = "unstored"
    /\ lastSearch.embed_calls >= 1
    /\ LET key == _get_cache_key(lastSearch.query, lastSearch.top_k)
       IN  /\ key \in DOMAIN _query_cache
           /\ lastSearch.timestamp - _query_cache[key].timestamp >= cache_ttl_seconds

\* C3: the status of the response that ends a turn is never needs_edit.
C3_NeverEndsWithNeedsEdit ==
    lastTurn.outcome = "fresh" => lastTurn.response.status # "needs_edit"

\* The action hint the evaluator's status calls for
ExpectedAction(status) ==
    CASE status = "needs_clarification" -> REQUEST_MORE_INFO
      [] status = "out_of_scope" -> REQUEST_CONTACT_FORM
      [] status = "escalate_to_human" -> REQUEST_CONTACT_FORM
      [] OTHER -> NoAction

\* C4: the action hint of the response is determined by the status the
\* evaluator collaborator emitted: needs_clarification gives "request more
\* info", out_of_scope and escalate_to_human give "request contact form",
\* ok gives no action.
C4_ActionFollowsEvaluatorStatus ==
    (/\ lastTurn.outcome = "fresh"
     /\ lastTurn.emitted \in {"ok", "needs_clarification", "out_of_scope", "escalate_to_human"})
    => lastTurn.response.action = ExpectedAction(lastTurn.emitted)

\* C5: a turn that the deadline cancels, at the analysis or at the
\* evaluation, returns the timeout response (timeout message, confidence 0,
\* no sources) and has written no entry to the request cache; no entry of
\* the request cache holds a timeout response.
C5_TimeoutResponseIsNotCached ==
    /\ lastTurn.outcome = "timeout" =>
          /\ lastTurn.emitted \in {"analysis", "evaluation"}
          /\ lastTurn.response.answer = <<SORRY, TIMEOUT_MESSAGE>>
          /\ lastTurn.response.confidence = 0
          /\ lastTurn.response.sources = <<>>
          /\ ~lastTurn.wrote
    /\ \A key \in DOMAIN _request_cache :
          _request_cache[key].response.answer # <<SORRY, TIMEOUT_MESSAGE>>

\* C5 witness: a turn was cancelled while it awaited the evaluation, an
\* earlier turn having filled the request cache.
C5_Witness ==
    /\ lastTurn.outcome = "timeout"
    /\ lastTurn.emitted = "evaluation"
    /\ _request_cache # <<>>

\* The turns inside _process_question_internal
InPipeline == {t \in Turns : pc[t] \in {"analysis", "evaluation"}}

\* C6: at most max_concurrent_requests turns have entered and not yet left
\* the pipeline body.
C6_GateBoundsPipeline == Cardinality(InPipeline) <= max_concurrent_requests

\* C6 witness: the pipeline is full and a further turn is held at the gate.
C6_Witness ==
    /\ Cardinality(InPipeline) = max_concurrent_requests
    /\ \E t \in Turns : pc[t] = "waiting"

\* C7: a call that finds every slot of the gate occupied is answered ("try
\* later"); no call is held at the gate.
C7_FullGateAnswersAtOnce == \A t \in Turns : pc[t] # "waiting"

\* C8: request_timeout covers the turn from the call of process_question,
\* the wait at the gate included: no call is without its response later
\* than request_timeout after it was made.
C8_DeadlineCoversWholeTurn ==
    \A t \in Turns : pc[t] # "idle" => age[t] <= request_timeout

\* C9: a search called with a blank query or a non-positive top_k raises to
\* its caller and does not return a list.
C9_InvalidInputRaises ==
    (lastSearch.status # "none" /\ ~_validate_input(lastSearch.query, lastSearch.top_k))
    => lastSearch.raises

\* C10 as stated: a search in which the provider or the vector store fails
\* leaves the query cache as it was.
C10_FailedSearchLeavesCacheUnchanged ==
    [][(IsSearchStep /\ lastSearch'.status \in FailedStatuses)
       => _query_cache' = _query_cache]_vars

\* C10 amended: a search in which the provider or the vector store fails
\* returns an empty list, raises nothing and writes no entry to the query
\* cache: every entry it leaves was there before, unchanged, none is left
\* for a key that had none, and the entries it removes are expired ones
\* (the periodic sweep runs inside the search).
C10_FailedSearchWritesNoEntry ==
    [][(IsSearchStep /\ lastSearch'.status \in FailedStatuses)
       => (/\ lastSearch'.value = <<>>
           /\ ~lastSearch'.raises
           /\ \A key \in DOMAIN _query_cache' :
                 key \in DOMAIN _query_cache /\ _query_cache'[key] = _query_cache[key]
           /\ \A key \in DOMAIN _query_cache \ DOMAIN _query_cache' :
                 clock - _query_cache[key].timestamp >= cache_ttl_seconds)]_vars

\* C10 witness: the vector store raised after the provider had to be asked
\* again, and the query cache holds an entry the failed search left alone.
C10_Witness ==
    /\ lastSearch.status = "store_failed"
    /\ lastSearch.embed_calls = max_retries
    /\ _query_cache # <<>>

\* The replies of the evaluator collaborator that are no valid output: the
\* call fails, or its output cannot be parsed into an EvaluateOutput
EvaluatorFailures == {"call_failed", "unparseable"}

\* C11: when the evaluator call fails or its output is malformed, the
\* evaluation that ends the turn has confidence 0 and status
\* escalate_to_human.
C11_EvaluatorFailureEscalates ==
    (lastTurn.outcome = "fresh" /\ lastTurn.emitted \in EvaluatorFailures)
    => (/\ lastTurn.response.confidence = 0
        /\ lastTurn.response.status = "escalate_to_human")

\* The elements of a list
Range(list) == {list[i] : i \in 1..Len(list)}

\* A list without two equal elements
NoDuplicates(list) == \A i, j \in 1..Len(list) : list[i] = list[j] => i = j

\* C12: every AnalysisResult with decision retrieve that is handed to the
\* evaluator carries a metadata sources list that is not empty, holds ids of
\* its retrievals only, holds none twice and holds at most max_sources.
C12_RetrieveCarriesSources ==
    \A t \in Turns :
        (pc[t] = "evaluation" /\ analysis[t].decision = "RETRIEVE")
        => (/\ analysis[t].has_sources
            /\ analysis[t].sources # <<>>
            /\ Range(analysis[t].sources) \subseteq Range(analysis[t].retrievals)
            /\ NoDuplicates(analysis[t].sources)
            /\ Len(analysis[t].sources) <= max_sources)

C14_AnswerHidesExceptionText ==
    lastTurn.outcome = "error" => lastTurn.emitted \notin Range(lastTurn.response.answer)

\* The replies of the analysis collaborator that are no valid output
AnalysisFailures == {"call_failed", "unparseable"}

\* C15: for every question text, the empty one included, and every reply of
\* the collaborator, the AnalysisResult of a completed analysis has a
\* decision among retrieve, oos and clarify and a confidence within [0, 1];
\* if the collaborator failed or its output could not be parsed, the
\* decision is oos, the confidence 0 and the retrieval list empty.
C15_AnalyzeAlwaysReturnsAResult ==
    \A t \in Turns :
        pc[t] = "evaluation"
        => (/\ analysis[t].decision \in {"RETRIEVE", "OUT_OF_SCOPE", "ASK_CLARIFY"}
            /\ analysis[t].confidence >= 0
            /\ analysis[t].confidence <= 100
            /\ analysis[t].emitted \in AnalysisFailures
               => (/\ analysis[t].decision = "OUT_OF_SCOPE"
                   /\ analysis[t].confidence = 0
                   /\ analysis[t].retrievals = <<>>))

\* C15 witness: the analysis of the empty question has returned after an
\* output that could not be parsed.
C15_Witness ==
    \E t \in Turns :
        /\ pc[t] = "evaluation"
        /\ question[t] = <<>>
        /\ analysis[t].emitted = "unparseable"

\* used_contact_info_tool of _evaluate_with_sdk: the analysis is about a
\* contact question and sure of it (the marks the tool itself leaves in the
\* metadata are not part of the AnalysisResult here)
UsedContactInfoTool(result) ==
    result.question_type = "contact" /\ result.confidence > 80

\* C16: a turn whose analysis did not take the contact shortcut and has a
\* confidence below 0.4 or no source ends with status escalate_to_human.
C16_LowConfidenceEscalates ==
    (/\ lastTurn.outcome = "fresh"
     /\ ~UsedContactInfoTool(lastTurn.analysis)
     /\ (lastTurn.analysis.confidence < 40 \/ lastTurn.analysis.sources = <<>>))
    => lastTurn.response.status = "escalate_to_human"

\* a step of process_contact_input that shows in the state
IsContactStep ==
    lastContact' # lastContact \/ contact_store' # contact_store

\* C17 (as stated): a text that yields no contact channel, a name at most,
\* fails validation, is answered by a failure and appends nothing; a block
\* is appended only for a submission that passed validation, exactly one
\* for every such submission, and the blocks already there stay as they are.
C17_EveryValidSubmissionIsRecordedOnce ==
    [][IsContactStep =>
        /\ ~has_contact_method(lastContact'.parsed) =>
               /\ ~lastContact'.is_valid
               /\ ~lastContact'.success
               /\ contact_store' = contact_store
        /\ contact_store' # contact_store => lastContact'.is_valid
        /\ lastContact'.is_valid => Len(contact_store') = Len(contact_store) + 1
        /\ SubSeq(contact_store', 1, Len(contact_store)) = contact_store]_vars

\* C17 (amended): a text that yields no contact channel fails validation, is
\* answered by a failure and appends nothing, as does every submission that
\* fails validation; a submission answered by a success has appended exactly
\* one complete block, that of its contact; one answered by a failure after
\* it passed validation has appended nothing or one broken block; the blocks
\* already there stay as they are.
C17_SuccessfulSubmissionIsRecordedOnce ==
    [][IsContactStep =>
        /\ ~has_contact_method(lastContact'.parsed) => ~lastContact'.is_valid
        /\ ~lastContact'.is_valid =>
               ~lastContact'.success /\ contact_store' = contact_store
        /\ lastContact'.success =>
               contact_store' =
                   Append(contact_store,
                          Block(lastContact'.parsed,
                                lastContact'.original_question, TRUE))
        /\ lastContact'.is_valid /\ ~lastContact'.success =>
               \/ contact_store' = contact_store
               \/ contact_store' =
                      Append(contact_store,
                             Block(lastContact'.parsed,
                                   lastContact'.original_question, FALSE))
        /\ SubSeq(contact_store', 1, Len(contact_store)) = contact_store]_vars

\* a submission that yields a name and no channel has been turned down, the
\* file holding a block of an earlier submission
C17_Witness ==
    /\ lastContact.parsed.name # <<>>
    /\ ~has_contact_method(lastContact.parsed)
    /\ lastContact.message = "invalid"
    /\ Len(contact_store) >= 1
    /\ contact_store[1].complete

\* C18: of two successive searches whose texts differ only by case and
\* surrounding blanks, the first having left its embedding in the embedding
\* cache and the second reaching the embedding step before that entry's TTL
\* has elapsed, the second finds the embedding in the cache and does not
\* call the provider.
C18_EmbeddingCacheFoldsCase ==
    [][(/\ IsSearchStep
        /\ lastSearch.status \in ComputedStatuses
        /\ lastSearch.embed_calls >= 1
        /\ Lower(Strip(lastSearch'.query)) = Lower(Strip(lastSearch.query))
        /\ lastSearch'.status \in ComputedStatuses \cup FailedStatuses
        /\ \E ekey \in DOMAIN _embedding_cache :
              /\ ekey = EmbeddingKey(_preprocess_query(lastSearch.query))
              /\ clock - _embedding_cache[ekey].timestamp < cache_ttl_seconds)
       => lastSearch'.embed_calls = 0]_vars

\* C19: a search that has computed a result leaves it in the query cache,
\* and one that has obtained an embedding from the provider leaves it in the
\* embedding cache, whether or not the cache was at its capacity before (the
\* oldest entry making room).
C19_FullCacheMakesRoom ==
    [][(IsSearchStep /\ lastSearch'.status \in ComputedStatuses) =>
          LET key == _get_cache_key(lastSearch'.query, lastSearch'.top_k)
              ekey == EmbeddingKey(_preprocess_query(lastSearch'.query))
          IN  /\ key \in DOMAIN _query_cache'
              /\ _query_cache'[key].value = lastSearch'.value
              /\ lastSearch'.embed_calls >= 1 =>
                     /\ ekey \in DOMAIN _embedding_cache'
                     /\ _embedding_cache'[ekey].timestamp = clock]_vars

\* a step that writes an entry into the request cache
IsRequestCacheInsertion ==
    \E key \in DOMAIN _request_cache' :
        key \notin DOMAIN _request_cache
        \/ _request_cache'[key] # _request_cache[key]

IsSweepStep ==
    /\ IsSearchStep
    /\ total_queries' = 0
    /\ lastSearch'.status # "input_error"

\* C21: when a search on which the sweep falls returns, no entry of the
\* query cache or of the embedding cache has now - timestamp >= ttl, and
\* every entry that was valid when the sweep ran is still there, unchanged.
C21_SweepRemovesExactlyTheExpired ==
    [][IsSweepStep =>
          /\ \A key \in DOMAIN _query_cache' :
                clock - _query_cache'[key].timestamp < cache_ttl_seconds
          /\ \A key \in DOMAIN _embedding_cache' :
                clock - _embedding_cache'[key].timestamp < cache_ttl_seconds
          /\ \A key \in DOMAIN _query_cache :
                clock - _query_cache[key].timestamp < cache_ttl_seconds
                => /\ key \in DOMAIN _query_cache'
                   /\ _query_cache'[key] = _query_cache[key]
          /\ \A key \in DOMAIN _embedding_cache :
                clock - _embedding_cache[key].timestamp < cache_ttl_seconds
                => /\ key \in DOMAIN _embedding_cache'
                   /\ _embedding_cache'[key] = _embedding_cache[key]]_vars

\* the sweep has fallen on a search made after time has passed: the search
\* failed at the provider, so that nothing was written after the sweep, and
\* both caches still hold an entry, which the sweep found valid
C21_Witness ==
    /\ total_queries = 0
    /\ lastSearch.status = "embed_failed"
    /\ clock >= 1
    /\ \E key \in DOMAIN _query_cache : _query_cache[key].timestamp = clock
    /\ \E key \in DOMAIN _embedding_cache :
          _embedding_cache[key].timestamp = clock

\* the attempts of a call that the provider turned down for its rate limit
\* and that were followed by another attempt
RateLimitedRetries(replies, calls) ==
    {i \in 1..(calls - 1) : replies[i] = "rate_limit"}

\* C23: whatever the provider replies, _embed_texts_with_retry calls it at
\* least once and at most max_retries times, stops at the first reply that
\* carries the embeddings and then returns one embedding for the text, raises
\* when its last attempt failed, and has slept before every attempt that
\* follows a rate-limited one; no search has called the provider more than
\* max_retries times.
C23_EmbeddingRetriesAreBounded ==
    /\ \A replies \in ProviderBehaviours :
          LET done == _embed_texts_with_retry(replies)
          IN  /\ done.calls \in 1..max_retries
              /\ done.status \in {"ok", "raised"}
              /\ \A i \in 1..(done.calls - 1) : replies[i] # "ok"
              /\ done.status = "ok" <=> replies[done.calls] = "ok"
              /\ done.status = "ok" => done.embeddings = 1
              /\ done.status = "raised" =>
                     done.calls = max_retries /\ done.embeddings = 0
              /\ done.waited >= Cardinality(RateLimitedRetries(replies, done.calls))
              /\ RateLimitedRetries(replies, done.calls) # {} => done.waited >= 1
    /\ lastSearch.embed_calls <= max_retries

\* a search has given up after the provider turned down every one of its
\* max_retries attempts
C23_Witness ==
    /\ lastSearch.status = "embed_failed"
    /\ lastSearch.embed_calls = max_retries
    /\ lastSearch.value = <<>>

\* a call of _process_search_results has returned
HasProcessed == lastProcessed.returned /\ lastProcessed.top_k > 0

\* C22: the list a call of _process_search_results returns, reranking being
\* enabled, has at most top_k elements and is in the order of non-increasing
\* 0.7 * similarity + 0.3 * keyword overlap, however many candidates reached
\* the similarity threshold.
C22_ResultsAreInScoreOrder ==
    (HasProcessed /\ result_reranking) =>
        /\ Len(lastProcessed.value) <= lastProcessed.top_k
        /\ \A i \in 1..(Len(lastProcessed.value) - 1) :
              calculate_relevance_score(lastProcessed.value[i], lastProcessed.query)
                 >= calculate_relevance_score(lastProcessed.value[i + 1],
                                              lastProcessed.query)

\* the steps of 0.1 between 0 and 2
DistanceGrid == {10 * n : n \in 0..20}

\* C24: over the distances from 0 to 2 the similarity lies between 0 and 1
\* and does not increase with the distance, and every result a call of
\* _process_search_results returns has a score between 0 and 1 that is not
\* below the similarity threshold.
C24_ScoresAreBoundedAndMonotone ==
    /\ \A d1 \in DistanceGrid \cup (StoreDistances \cap 0..200) :
          /\ Similarity(d1) \in 0..One
          /\ \A d2 \in DistanceGrid : d1 <= d2 => Similarity(d1) >= Similarity(d2)
    /\ HasProcessed =>
          \A i \in 1..Len(lastProcessed.value) :
              /\ lastProcessed.value[i].score \in 0..One
              /\ lastProcessed.value[i].score >= similarity_threshold
              /\ lastProcessed.value[i].score
                    = Similarity(lastProcessed.results[lastProcessed.value[i].doc_id].distance)

\* a call has returned a result whose distance was below 0 and one whose
\* similarity is the threshold itself, and has left out a candidate beyond
\* the threshold
C24_Witness ==
    /\ HasProcessed
    /\ Len(lastProcessed.results) = 3
    /\ lastProcessed.results[1].distance < 0
    /\ lastProcessed.results[3].distance > 180
    /\ Len(lastProcessed.value) = 2
    /\ lastProcessed.value[1].score = One
    /\ lastProcessed.value[2].score = similarity_threshold

\* C25: the free slots and the turns that hold one always add up to
\* max_concurrent_requests, a turn that ends (by its response, by an
\* exception or by the deadline) gives its slot back, and a turn that waits
\* at the gate is admitted in the end, every admitted turn ending.
C25_SlotsAreReleased ==
    /\ [](free + Cardinality(InPipeline) = max_concurrent_requests)
    /\ [][\A t \in InPipeline : pc'[t] = "idle" => free' = free + 1]_vars
    /\ \A t \in Turns : (pc[t] = "waiting") ~> (pc[t] # "waiting")

\* a turn has ended by an exception while another waited at the gate, and
\* the slot it gave back is free
C25_Witness ==
    /\ lastTurn.outcome = "error"
    /\ free = max_concurrent_requests
    /\ \E t \in Turns : pc[t] = "waiting"

\* C26: every call of process_question that has returned, whatever its
\* outcome, has added exactly 1 to total_requests and exactly 1 to one of
\* successful_requests and failed_requests, nothing to the other.
C26_EveryCallCountsOnce ==
    lastTurn.outcome # "" =>
        /\ lastTurn.counted.total_requests = 1
        /\ lastTurn.counted.successful_requests + lastTurn.counted.failed_requests = 1

\* C27: in every reachable state, resets of the statistics during turns
\* included, stats.concurrent_requests is not negative and is the number of
\* calls of process_question that have started and not returned.
C27_ConcurrentRequestsCountsCallsInFlight ==
    /\ concurrent_requests >= 0
    /\ concurrent_requests = Cardinality({t \in Turns : pc[t] # "idle"})

\* a call of ResumeMateProcessor.clear_cache that shows in the state: the
\* request cache is emptied and no turn moves
IsProcessorClearStep ==
    /\ _request_cache # <<>>
    /\ _request_cache' = <<>>
    /\ pc' = pc

\* C28: when ResumeMateProcessor.clear_cache returns, the query cache and
\* the embedding cache that the searches of the analysis agent read and
\* write are empty, so that no later search is served from an entry written
\* before.
C28_ClearCacheEmptiesTheSearchCaches ==
    [][IsProcessorClearStep =>
          /\ _query_cache' = <<>>
          /\ _embedding_cache' = <<>>]_vars

\* C29: a turn in which the analysis or the evaluation collaborator failed,
\* or answered what cannot be parsed, has not written its response into the
\* request cache, and no turn is answered from the cache with the fallback
\* answer of a failed evaluation.
C29_FallbackIsNotCached ==
    /\ (/\ lastTurn.outcome = "fresh"
        /\ (\/ lastTurn.emitted \in EvaluatorFailures
            \/ lastTurn.analysis.emitted \in AnalysisFailures))
       => ~lastTurn.wrote
    /\ lastTurn.outcome = "cached"
       => lastTurn.response.answer # evaluate("call_failed").final_answer

\* C30: a search whose key has an expired entry in the query cache and that
\* computes a result puts that result in the place of the expired entry,
\* with the current time, also when the cache is at its capacity, so that
\* the next lookup of the key within the TTL is a hit.
C30_ExpiredEntryIsReplaced ==
    [][IsSearchStep =>
          LET key == _get_cache_key(lastSearch'.query, lastSearch'.top_k)
          IN  (/\ key \in DOMAIN _query_cache
               /\ clock - _query_cache[key].timestamp >= cache_ttl_seconds
               /\ lastSearch'.status \in ComputedStatuses)
              => /\ key \in DOMAIN _query_cache'
                 /\ _query_cache'[key].timestamp = clock
                 /\ _query_cache'[key].value = lastSearch'.value]_vars

====
